---- MODULE Spec2Model ----
(***************************************************************************)
(* Model of video_core/renderer_vulkan/vk_compute_pipeline.cpp:            *)
(* ComputePipeline::ComputePipeline (descriptor-set layout, pipeline       *)
(* layout and compute pipeline creation) and ComputePipeline::BindResources*)
(* (per-dispatch staging of buffers, resolution of image views and         *)
(* samplers, and the push of the descriptor writes).                       *)
(*                                                                         *)
(* The constructor is modelled in four steps (the three binding loops, and *)
(* the three host object creations); BindResources is modelled with one    *)
(* step per loop iteration, one step per loop exit and one step for the    *)
(* final push.  A step that ends the call abnormally (a thrown exception   *)
(* or an abort) leaves the call in "faulted".                              *)
(***************************************************************************)
EXTENDS Integers, Sequences, FiniteSets, TLC

\* ---------------------------------------------------------------- bounds
MaxBuffers == 5
MaxImages == 5
MaxSamplers == 4
MaxDispatches == 2
MaxUd == 2

\* ------------------------------------------------------ program constants
MinUniformAlignment == 64
BufferInfoCapacity == 4
ImageInfoCapacity == 8
VK_NULL_HANDLE == 0

\* Size of the staging ring of the stream buffer.
StagingSize == 512
\* Handle of the staging buffer (staging.Handle()).
StagingHandle == 7

VARIABLES
    info,            \* Shader::Info: buffers, images, samplers
    pc,              \* position of the constructor / of BindResources
    bindings,        \* constructor local: descriptor-set layout bindings
    desc_layout,     \* member: descriptor-set layout (VK_NULL_HANDLE if none)
    pipeline_layout, \* member: pipeline layout
    pipeline,        \* member: compute pipeline
    ud,              \* user data the hardware descriptors are read from
    binding,         \* BindResources local: running binding index
    idx,             \* BindResources: position in the current loop
    buffer_infos,    \* BindResources local: static_vector<DescriptorBufferInfo, 4>
    image_infos,     \* BindResources local: static_vector<DescriptorImageInfo, 8>
    set_writes,      \* BindResources local: small_vector<WriteDescriptorSet, 16>
    staging_offset,  \* StreamBuffer: write cursor of the ring
    tc_dirty,        \* TextureCache: addresses invalidated and not yet re-resolved
    log,             \* calls made to the collaborators in the current dispatch
    cmds,            \* commands recorded in the scheduler's command buffer
    dispatch,        \* number of BindResources calls started
    fault            \* why the current call ended abnormally ("none" if it did not)

vars == <<info, pc, bindings, desc_layout, pipeline_layout, pipeline, ud, binding, idx,
          buffer_infos, image_infos, set_writes, staging_offset, tc_dirty, log, cmds,
          dispatch, fault>>

\* ------------------------------------------------------------ Shader::Info
RECURSIVE SeqsUpTo(_, _)
SeqsUpTo(S, n) ==
    IF n = 0 THEN {<<>>}
    ELSE LET shorter == SeqsUpTo(S, n - 1)
         IN shorter \cup {Append(s, x) : s \in {t \in shorter : Len(t) = n - 1}, x \in S}

\* Buffer entries: the storage flag and the location of the V# in user data.
BufferLists ==
    {[k \in 1..Len(fl) |-> [is_storage |-> fl[k], sgpr_base |-> k]] :
        fl \in SeqsUpTo(BOOLEAN, MaxBuffers)}
ImageLists == {[j \in 1..n |-> [sgpr_base |-> j]] : n \in 0..MaxImages}
SamplerLists == {[k \in 1..n |-> [sgpr_base |-> k]] : n \in 0..MaxSamplers}

NumEntries(i) == Len(i.buffers) + Len(i.images) + Len(i.samplers)

\* ----------------------------------------------------- hardware descriptors
\* The user data is one of MaxUd+1 memory images; image m holds, at the
\* location of entry k, the descriptors below.
BufferSize(m, k) ==
    CASE m % 3 = 0 -> (IF k % 2 = 1 THEN 256 ELSE 64)
      [] m % 3 = 1 -> (IF k % 2 = 1 THEN 16 ELSE 80)
      [] OTHER     -> (IF k = 2 THEN 1024 ELSE 48)
GuestAddr(m, k) == 1 + ((m + k) % 2)

\* info.ReadUd<AmdGpu::Buffer>(sgpr_base, dword_offset)
ReadUdBuffer(m, buffer) ==
    [base_address |-> GuestAddr(m, buffer.sgpr_base), size |-> BufferSize(m, buffer.sgpr_base)]
\* info.ReadUd<AmdGpu::Image>(sgpr_base, dword_offset)
ReadUdImage(m, image) ==
    [address |-> GuestAddr(m, image.sgpr_base + 1),
     valid |-> ~(m % 3 = 2 /\ image.sgpr_base = 2)]
\* info.ReadUd<AmdGpu::Sampler>(sgpr_base, dword_offset)
ReadUdSampler(m, sampler) == [id |-> 1 + ((m + sampler.sgpr_base) % 3)]

\* ------------------------------------------------------------ StreamBuffer
AlignUp(value, alignment) == ((value + alignment - 1) \div alignment) * alignment

\* StreamBuffer::Map(size, alignment): the offset of the mapped region.
\* The cursor is aligned; a region that does not fit restarts the ring.
StreamBufferMap(offset, size, alignment) ==
    LET aligned == IF alignment > 0 THEN AlignUp(offset, alignment) ELSE offset
    IN IF aligned + size > StagingSize THEN 0 ELSE aligned

\* StreamBuffer::Commit(size): the cursor after the region.
StreamBufferCommit(offset, size) == offset + size

\* ------------------------------------------------------------ TextureCache
\* TextureCache::OnCpuWrite(addr): images overlapping addr are invalidated.
OnCpuWrite(dirty, addr) == dirty \cup {addr}

\* Handle of the view of the image at address, before or after a refresh.
ViewHandle(address, refreshed) == 10 + 2 * address + (IF refreshed THEN 1 ELSE 0)

\* TextureCache::FindImageView(tsharp): the possible results.  A malformed
\* descriptor yields the null view, or the lookup throws.
FindImageView(dirty, tsharp) ==
    IF tsharp.valid
    THEN {[ok |-> TRUE, view |-> ViewHandle(tsharp.address, tsharp.address \in dirty),
           dirty |-> dirty \ {tsharp.address}]}
    ELSE {[ok |-> TRUE, view |-> VK_NULL_HANDLE, dirty |-> dirty],
          [ok |-> FALSE, view |-> VK_NULL_HANDLE, dirty |-> dirty]}

\* TextureCache::GetSampler(ssharp)
GetSampler(ssharp) == 20 + ssharp.id

\* ------------------------------------------------------------ constructor
LayoutBinding(b, type) ==
    [binding |-> b, descriptorType |-> type, descriptorCount |-> 1, stageFlags |-> "Compute"]

LayoutBufferType(buffer) == IF buffer.is_storage THEN "StorageBuffer" ELSE "UniformBuffer"

\* The three loops of the constructor; st carries `bindings' and `binding'.
RECURSIVE CtorBuffers(_, _)
CtorBuffers(st, buffers) ==
    IF buffers = <<>> THEN st
    ELSE CtorBuffers([bindings |-> Append(st.bindings,
                                    LayoutBinding(st.binding, LayoutBufferType(Head(buffers)))),
                      binding |-> st.binding + 1], Tail(buffers))

RECURSIVE CtorImages(_, _)
CtorImages(st, images) ==
    IF images = <<>> THEN st
    ELSE CtorImages([bindings |-> Append(st.bindings, LayoutBinding(st.binding, "SampledImage")),
                     binding |-> st.binding + 1], Tail(images))

RECURSIVE CtorSamplers(_, _)
CtorSamplers(st, samplers) ==
    IF samplers = <<>> THEN st
    ELSE CtorSamplers([bindings |-> Append(st.bindings, LayoutBinding(st.binding, "Sampler")),
                       binding |-> st.binding + 1], Tail(samplers))

CtorLayoutBindings(i) ==
    CtorSamplers(CtorImages(CtorBuffers([bindings |-> <<>>, binding |-> 0], i.buffers),
                            i.images), i.samplers).bindings

NullObject == [handle |-> VK_NULL_HANDLE]

\* Lines 25-51: the bindings of the descriptor-set layout.
CtorBindings ==
    /\ pc = "ctor_bindings"
    /\ bindings' = CtorLayoutBindings(info)
    /\ pc' = "ctor_desc_layout"
    /\ UNCHANGED <<info, desc_layout, pipeline_layout, pipeline, ud, binding, idx,
                   buffer_infos, image_infos, set_writes, staging_offset, tc_dirty, log,
                   cmds, dispatch, fault>>

\* Lines 53-58: createDescriptorSetLayoutUnique.  The result is not checked;
\* a host failure leaves the constructor as a thrown exception.
CreateDescLayout ==
    /\ pc = "ctor_desc_layout"
    /\ \E ok \in BOOLEAN :
        IF ok
        THEN /\ desc_layout' = [handle |-> 1, flags |-> "PushDescriptorKHR",
                                bindingCount |-> Len(bindings), pBindings |-> bindings]
             /\ pc' = "ctor_pipeline_layout"
             /\ fault' = fault
        ELSE /\ desc_layout' = desc_layout
             /\ pc' = "threw"
             /\ fault' = "desc_layout"
    /\ UNCHANGED <<info, bindings, pipeline_layout, pipeline, ud, binding, idx,
                   buffer_infos, image_infos, set_writes, staging_offset, tc_dirty, log,
                   cmds, dispatch>>

\* Lines 60-67: createPipelineLayoutUnique.
CreatePipelineLayout ==
    /\ pc = "ctor_pipeline_layout"
    /\ \E ok \in BOOLEAN :
        IF ok
        THEN /\ pipeline_layout' = [handle |-> 2, setLayoutCount |-> 1,
                                    pSetLayouts |-> <<desc_layout.handle>>,
                                    pushConstantRangeCount |-> 0]
             /\ pc' = "ctor_pipeline"
             /\ fault' = fault
        ELSE /\ pipeline_layout' = pipeline_layout
             /\ pc' = "threw"
             /\ fault' = "pipeline_layout"
    /\ UNCHANGED <<info, bindings, desc_layout, pipeline, ud, binding, idx,
                   buffer_infos, image_infos, set_writes, staging_offset, tc_dirty, log,
                   cmds, dispatch>>

\* Lines 69-79: createComputePipelineUnique; any result but eSuccess reaches
\* UNREACHABLE_MSG, which aborts the process.
CreatePipeline ==
    /\ pc = "ctor_pipeline"
    /\ \E result \in {"eSuccess", "eErrorOutOfHostMemory"} :
        IF result = "eSuccess"
        THEN /\ pipeline' = [handle |-> 3, stage |-> "Compute", pName |-> "main",
                             layout |-> pipeline_layout.handle]
             /\ pc' = "ready"
             /\ fault' = fault
        ELSE /\ pipeline' = pipeline
             /\ pc' = "aborted"
             /\ fault' = "pipeline"
    /\ UNCHANGED <<info, bindings, desc_layout, pipeline_layout, ud, binding, idx,
                   buffer_infos, image_infos, set_writes, staging_offset, tc_dirty, log,
                   cmds, dispatch>>

\* ---------------------------------------------------------- BindResources
\* Variant of map_staging that asks Map for no particular alignment.
map_staging_unaligned(cursor, size) ==
    IF size > StagingSize
    THEN [ok |-> FALSE, offset |-> 0, cursor |-> cursor, events |-> <<>>]
    ELSE LET offset == StreamBufferMap(cursor, size, 1)
         IN [ok |-> TRUE, offset |-> offset, cursor |-> StreamBufferCommit(offset, size),
             events |-> <<[op |-> "Map", size |-> size, alignment |-> 1, ret |-> offset],
                          [op |-> "Commit", size |-> size]>>]

\* Variant of map_staging that keeps the region of an earlier call instead of
\* mapping a new one.
map_staging_cached(cursor, size) ==
    [ok |-> TRUE, offset |-> 0, cursor |-> cursor, events |-> <<>>]

\* Lines 88-93: the map_staging lambda.  Map with the minimum alignment, copy,
\* Commit; yields the offset of the region.  Map refuses a region larger than
\* the ring (ok = FALSE).
map_staging(cursor, size) ==
    IF size > StagingSize
    THEN [ok |-> FALSE, offset |-> 0, cursor |-> cursor, events |-> <<>>]
    ELSE LET offset == StreamBufferMap(cursor, size, MinUniformAlignment)
         IN [ok |-> TRUE, offset |-> offset, cursor |-> StreamBufferCommit(offset, size),
             events |-> <<[op |-> "Map", size |-> size, alignment |-> MinUniformAlignment,
                           ret |-> offset],
                          [op |-> "Commit", size |-> size]>>]

\* Variant of BufferCalls that stages the buffer before the notification.
BufferCallsStageFirst(k, vsharp, st) ==
    [e \in DOMAIN st.events |-> st.events[e] @@ [entry |-> k]]
    \o <<[op |-> "OnCpuWrite", entry |-> k, addr |-> vsharp.base_address]>>

\* Lines 105-106: the collaborator calls of one buffer iteration, in order.
BufferCalls(k, vsharp, st) ==
    <<[op |-> "OnCpuWrite", entry |-> k, addr |-> vsharp.base_address]>>
    \o [e \in DOMAIN st.events |-> st.events[e] @@ [entry |-> k]]

\* Variant of InfoBack that points at the first record of the container.
InfoFront(infos) == 1

\* &infos.back(): the position of the last record of the container.
InfoBack(infos) == Len(infos)

\* Variant of WriteBufferType that ignores the storage flag.
WriteBufferTypeUniform(buffer) == "UniformBuffer"

WriteBufferType(buffer) == IF buffer.is_storage THEN "StorageBuffer" ELSE "UniformBuffer"

\* Lines 109-117
BufferWrite(b, buffer, infos) ==
    [dstSet |-> VK_NULL_HANDLE, dstBinding |-> b, dstArrayElement |-> 0,
     descriptorCount |-> 1, descriptorType |-> WriteBufferType(buffer),
     pBufferInfo |-> InfoBack(infos), pImageInfo |-> 0]

\* Variant of ImageWrite that numbers the images from zero on their own.
ImageWritePerKind(b, infos) ==
    [dstSet |-> VK_NULL_HANDLE, dstBinding |-> Len(infos) - 1, dstArrayElement |-> 0,
     descriptorCount |-> 1, descriptorType |-> "SampledImage",
     pBufferInfo |-> 0, pImageInfo |-> Len(infos)]

\* Lines 124-131
ImageWrite(b, infos) ==
    [dstSet |-> VK_NULL_HANDLE, dstBinding |-> b, dstArrayElement |-> 0,
     descriptorCount |-> 1, descriptorType |-> "SampledImage",
     pBufferInfo |-> 0, pImageInfo |-> InfoBack(infos)]

\* Lines 137-144
SamplerWrite(b, infos) ==
    [dstSet |-> VK_NULL_HANDLE, dstBinding |-> b, dstArrayElement |-> 0,
     descriptorCount |-> 1, descriptorType |-> "Sampler",
     pBufferInfo |-> 0, pImageInfo |-> InfoBack(infos)]

\* Variant of PushNeeded that pushes whatever the writes are.
PushAlways(writes) == TRUE

\* Line 147
PushNeeded(writes) == writes # <<>>

\* Variant of PushedWrites that hands over the buffer writes only.
PushedBufferWrites(writes) == SubSeq(writes, 1, Len(buffer_infos))

\* Lines 149-150: the writes handed to pushDescriptorSetKHR.
PushedWrites(writes) == writes

\* What the host reads through a write's info pointer at push time.
Deref(w) ==
    [dstBinding |-> w.dstBinding, descriptorType |-> w.descriptorType,
     descriptorCount |-> w.descriptorCount, dstArrayElement |-> w.dstArrayElement,
     info |-> IF w.pBufferInfo # 0 THEN buffer_infos[w.pBufferInfo]
              ELSE image_infos[w.pImageInfo]]

ctor_members == <<info, bindings, desc_layout, pipeline_layout, pipeline>>

\* Lines 84-99: entry of BindResources; the locals are empty and the user
\* data is whatever the guest has written by now.
BeginBind ==
    /\ pc = "ready"
    /\ dispatch < MaxDispatches
    /\ \E m \in 0..MaxUd : ud' = m
    /\ dispatch' = dispatch + 1
    /\ binding' = 0
    /\ buffer_infos' = <<>>
    /\ image_infos' = <<>>
    /\ set_writes' = <<>>
    /\ log' = <<>>
    /\ idx' = 1
    /\ pc' = "buffers"
    /\ UNCHANGED <<ctor_members, staging_offset, tc_dirty, cmds, fault>>

\* Lines 101-118: one iteration of the buffer loop.
BindBuffer ==
    /\ pc = "buffers"
    /\ idx <= Len(info.buffers)
    /\ LET buffer == info.buffers[idx]
           vsharp == ReadUdBuffer(ud, buffer)
           size == vsharp.size
           addr == vsharp.base_address
           st == map_staging(staging_offset, size)
           infos == Append(buffer_infos, [buffer |-> StagingHandle, offset |-> st.offset,
                                          range |-> size])
       IN /\ tc_dirty' = OnCpuWrite(tc_dirty, addr)
          /\ staging_offset' = st.cursor
          /\ log' = log \o BufferCalls(idx, vsharp, st)
          /\ IF ~st.ok
             THEN /\ fault' = "staging"
                  /\ pc' = "faulted"
                  /\ UNCHANGED <<buffer_infos, set_writes, binding, idx>>
             ELSE IF Len(buffer_infos) >= BufferInfoCapacity
             THEN /\ fault' = "capacity"
                  /\ pc' = "faulted"
                  /\ UNCHANGED <<buffer_infos, set_writes, binding, idx>>
             ELSE /\ buffer_infos' = infos
                  /\ set_writes' = Append(set_writes, BufferWrite(binding, buffer, infos))
                  /\ binding' = binding + 1
                  /\ idx' = idx + 1
                  /\ UNCHANGED <<pc, fault>>
    /\ UNCHANGED <<ctor_members, ud, image_infos, cmds, dispatch>>

\* Line 101: the buffer loop is exhausted.
EndBuffers ==
    /\ pc = "buffers"
    /\ idx > Len(info.buffers)
    /\ pc' = "images"
    /\ idx' = 1
    /\ UNCHANGED <<ctor_members, ud, binding, buffer_infos, image_infos, set_writes,
                   staging_offset, tc_dirty, log, cmds, dispatch, fault>>

\* Lines 120-132: one iteration of the image loop.
BindImage ==
    /\ pc = "images"
    /\ idx <= Len(info.images)
    /\ LET image == info.images[idx]
           tsharp == ReadUdImage(ud, image)
       IN \E r \in FindImageView(tc_dirty, tsharp) :
           LET infos == Append(image_infos, [sampler |-> VK_NULL_HANDLE, imageView |-> r.view,
                                             imageLayout |-> "General"])
           IN /\ tc_dirty' = r.dirty
              /\ log' = Append(log, [op |-> "FindImageView", entry |-> idx, ok |-> r.ok,
                                     ret |-> r.view])
              /\ IF ~r.ok
                 THEN /\ fault' = "texture_cache"
                      /\ pc' = "faulted"
                      /\ UNCHANGED <<image_infos, set_writes, binding, idx>>
                 ELSE IF Len(image_infos) >= ImageInfoCapacity
                 THEN /\ fault' = "capacity"
                      /\ pc' = "faulted"
                      /\ UNCHANGED <<image_infos, set_writes, binding, idx>>
                 ELSE /\ image_infos' = infos
                      /\ set_writes' = Append(set_writes, ImageWrite(binding, infos))
                      /\ binding' = binding + 1
                      /\ idx' = idx + 1
                      /\ UNCHANGED <<pc, fault>>
    /\ UNCHANGED <<ctor_members, ud, buffer_infos, staging_offset, cmds, dispatch>>

\* Line 120: the image loop is exhausted.
EndImages ==
    /\ pc = "images"
    /\ idx > Len(info.images)
    /\ pc' = "samplers"
    /\ idx' = 1
    /\ UNCHANGED <<ctor_members, ud, binding, buffer_infos, image_infos, set_writes,
                   staging_offset, tc_dirty, log, cmds, dispatch, fault>>

\* Lines 133-145: one iteration of the sampler loop.
BindSampler ==
    /\ pc = "samplers"
    /\ idx <= Len(info.samplers)
    /\ LET sampler == info.samplers[idx]
           ssharp == ReadUdSampler(ud, sampler)
           vk_sampler == GetSampler(ssharp)
           infos == Append(image_infos, [sampler |-> vk_sampler, imageView |-> VK_NULL_HANDLE,
                                         imageLayout |-> "General"])
       IN /\ log' = Append(log, [op |-> "GetSampler", entry |-> idx, ok |-> TRUE,
                                 ret |-> vk_sampler])
          /\ IF Len(image_infos) >= ImageInfoCapacity
             THEN /\ fault' = "capacity"
                  /\ pc' = "faulted"
                  /\ UNCHANGED <<image_infos, set_writes, binding, idx>>
             ELSE /\ image_infos' = infos
                  /\ set_writes' = Append(set_writes, SamplerWrite(binding, infos))
                  /\ binding' = binding + 1
                  /\ idx' = idx + 1
                  /\ UNCHANGED <<pc, fault>>
    /\ UNCHANGED <<ctor_members, ud, buffer_infos, staging_offset, tc_dirty, cmds, dispatch>>

\* Line 133: the sampler loop is exhausted.
EndSamplers ==
    /\ pc = "samplers"
    /\ idx > Len(info.samplers)
    /\ pc' = "push"
    /\ UNCHANGED <<ctor_members, ud, binding, idx, buffer_infos, image_infos, set_writes,
                   staging_offset, tc_dirty, log, cmds, dispatch, fault>>

\* Lines 147-152: the push of the writes, and the return.
Push ==
    /\ pc = "push"
    /\ cmds' = IF PushNeeded(set_writes)
               THEN Append(cmds, [op |-> "pushDescriptorSetKHR", dispatch |-> dispatch,
                                  pipelineBindPoint |-> "Compute",
                                  layout |-> pipeline_layout.handle, set |-> 0,
                                  writes |-> [w \in DOMAIN PushedWrites(set_writes) |->
                                                 Deref(PushedWrites(set_writes)[w])]])
               ELSE cmds
    /\ pc' = "ready"
    /\ UNCHANGED <<ctor_members, ud, binding, idx, buffer_infos, image_infos, set_writes,
                   staging_offset, tc_dirty, log, dispatch, fault>>

Init ==
    /\ info \in [buffers : BufferLists, images : ImageLists, samplers : SamplerLists]
    /\ pc = "ctor_bindings"
    /\ bindings = <<>>
    /\ desc_layout = NullObject
    /\ pipeline_layout = NullObject
    /\ pipeline = NullObject
    /\ ud = 0
    /\ binding = 0
    /\ idx = 1
    /\ buffer_infos = <<>>
    /\ image_infos = <<>>
    /\ set_writes = <<>>
    /\ staging_offset = 0
    /\ tc_dirty = {}
    /\ log = <<>>
    /\ cmds = <<>>
    /\ dispatch = 0
    /\ fault = "none"

Next ==
    \/ CtorBindings
    \/ CreateDescLayout
    \/ CreatePipelineLayout
    \/ CreatePipeline
    \/ BeginBind
    \/ BindBuffer
    \/ EndBuffers
    \/ BindImage
    \/ EndImages
    \/ BindSampler
    \/ EndSamplers
    \/ Push

Spec == Init /\ [][Next]_vars

\* ------------------------------------------------------------ properties
nb == Len(info.buffers)
ni == Len(info.images)
ns == Len(info.samplers)

InBind == pc \in {"buffers", "images", "samplers", "push", "faulted"}
Constructed == pc \in {"ready", "buffers", "images", "samplers", "push", "faulted"}

\* The pushes recorded by the current BindResources call.
ThisPush == {i \in DOMAIN cmds : cmds[i].dispatch = dispatch}

\* The position, in the order buffers-images-samplers, of the entry a write
\* was created for (through the info record it points at).
EntryOf(w) == IF w.pBufferInfo # 0 THEN w.pBufferInfo ELSE nb + w.pImageInfo

\* The descriptor type of the entry at position e.
EntryType(e) ==
    IF e <= nb THEN (IF info.buffers[e].is_storage THEN "StorageBuffer" ELSE "UniformBuffer")
    ELSE IF e <= nb + ni THEN "SampledImage" ELSE "Sampler"

\* The positions of the log holding a call op made for entry k.
LogAt(op, k) == {i \in DOMAIN log : log[i].op = op /\ log[i].entry = k}

\* C1: the binding index the constructor gives an entry equals the dstBinding
\* BindResources gives the same entry; the indices are 0,1,2,... over the
\* buffers, then the images, then the samplers, without gaps or duplicates.
C1_BindingIndexAgreement ==
    /\ pc # "ctor_bindings" =>
          /\ Len(bindings) = NumEntries(info)
          /\ \A k \in DOMAIN bindings : bindings[k].binding = k - 1
    /\ Constructed =>
          \A w \in DOMAIN set_writes :
              /\ EntryOf(set_writes[w]) = w
              /\ set_writes[w].dstBinding = desc_layout.pBindings[EntryOf(set_writes[w])].binding
              /\ set_writes[w].dstBinding = w - 1
    /\ \A c \in DOMAIN cmds : \A w \in DOMAIN cmds[c].writes :
              cmds[c].writes[w].dstBinding = desc_layout.pBindings[w].binding

C1_Witness ==
    /\ nb = 1 /\ ni = 1 /\ ns = 1
    /\ ~info.buffers[1].is_storage
    /\ ThisPush # {}
    /\ \A i \in ThisPush : Len(cmds[i].writes) = 3

\* C2: a descriptor without entries gives a layout without bindings, and
\* BindResources then stages nothing, calls the texture cache for nothing,
\* pushes nothing and returns normally.
C2_EmptyDescriptor ==
    NumEntries(info) = 0 =>
        /\ bindings = <<>>
        /\ desc_layout.handle # VK_NULL_HANDLE => desc_layout.bindingCount = 0
        /\ log = <<>>
        /\ staging_offset = 0
        /\ tc_dirty = {}
        /\ cmds = <<>>
        /\ pc # "faulted"

C2_Witness == NumEntries(info) = 0 /\ dispatch = MaxDispatches /\ pc = "ready"

\* C3: a failed creation of the descriptor-set layout, the pipeline layout or
\* the pipeline is handed to the caller of the constructor as an error; the
\* caller keeps control and sees no pipeline object.
C3_ConstructionFailureSurfaced ==
    fault \in {"desc_layout", "pipeline_layout", "pipeline"} => pc = "threw"

\* C4: a BindResources call pushes either once, the complete set of writes
\* (one per entry; compute bind point, the pipeline's layout, set 0), or not
\* at all; a call that fails part-way pushes nothing.
C4_AllOrNothingPush ==
    /\ \A c \in DOMAIN cmds :
          /\ cmds[c].pipelineBindPoint = "Compute"
          /\ cmds[c].layout = pipeline_layout.handle
          /\ cmds[c].set = 0
          /\ Len(cmds[c].writes) = NumEntries(info)
          /\ \A e \in 1..NumEntries(info) : cmds[c].writes[e].descriptorType = EntryType(e)
    /\ \A c, d \in DOMAIN cmds : cmds[c].dispatch = cmds[d].dispatch => c = d
    /\ pc \in {"buffers", "images", "samplers", "push", "faulted"} => ThisPush = {}
    /\ (pc = "ready" /\ dispatch > 0 /\ NumEntries(info) > 0) => Cardinality(ThisPush) = 1

C4_Witness ==
    /\ pc = "faulted"
    /\ fault \in {"staging", "texture_cache"}
    /\ set_writes # <<>>
    /\ dispatch = 2
    /\ Len(cmds) = 1

\* C5: in one BindResources call the write notification for a buffer's
\* address comes right before the staging of that buffer, every write
\* notification comes before every image-view resolution, and the first
\* resolution of an image at a notified address yields the refreshed view.
C5_NotifyBeforeStageAndResolve ==
    InBind =>
        /\ \A i \in DOMAIN log :
              log[i].op = "Map" =>
                  /\ i > 1
                  /\ log[i - 1].op = "OnCpuWrite"
                  /\ log[i - 1].entry = log[i].entry
                  /\ log[i - 1].addr = ReadUdBuffer(ud, info.buffers[log[i].entry]).base_address
        /\ \A i, j \in DOMAIN log :
              (log[i].op = "OnCpuWrite" /\ log[j].op = "FindImageView") => i < j
        /\ \A j \in DOMAIN log :
              log[j].op = "FindImageView" =>
                  LET tsharp == ReadUdImage(ud, info.images[log[j].entry])
                      notified == \E i \in DOMAIN log :
                                     log[i].op = "OnCpuWrite" /\ log[i].addr = tsharp.address
                      first == \A i \in 1..(j - 1) :
                                  log[i].op = "FindImageView" =>
                                      ReadUdImage(ud, info.images[log[i].entry]).address
                                          # tsharp.address
                  IN (tsharp.valid /\ notified /\ first) =>
                         log[j].ret = ViewHandle(tsharp.address, TRUE)

C5_Witness ==
    /\ InBind
    /\ \E i, j \in DOMAIN log :
          /\ log[i].op = "Map"
          /\ log[j].op = "FindImageView"
          /\ log[j].ret = ViewHandle(ReadUdBuffer(ud, info.buffers[log[i].entry]).base_address,
                                     TRUE)

\* C6: the range of every buffer binding is the size decoded from the
\* buffer's descriptor, which is also the size mapped and committed; its
\* offset is the one Map returned for alignment 64 and is a multiple of 64.
C6_BufferRangeAndOffset ==
    /\ InBind \/ (pc = "ready" /\ dispatch > 0) =>
          \A k \in DOMAIN buffer_infos :
              LET size == ReadUdBuffer(ud, info.buffers[k]).size
              IN /\ buffer_infos[k].range = size
                 /\ \E i \in LogAt("Map", k) :
                        /\ log[i].size = size
                        /\ log[i].alignment = 64
                        /\ log[i].ret = buffer_infos[k].offset
                        /\ log[i + 1].op = "Commit"
                        /\ log[i + 1].size = size
                 /\ \A i \in ThisPush :
                        /\ cmds[i].writes[k].info.range = size
                        /\ cmds[i].writes[k].info.offset = buffer_infos[k].offset
    /\ \A k \in DOMAIN buffer_infos : buffer_infos[k].offset % 64 = 0
    /\ \A c \in DOMAIN cmds : \A k \in 1..nb : cmds[c].writes[k].info.offset % 64 = 0

C6_Witness ==
    /\ ThisPush # {}
    /\ nb >= 2
    /\ buffer_infos[1].range = 16
    /\ buffer_infos[2].offset = 64
    /\ buffer_infos[2].range = 80

\* C7: in a push, the image view of every image write and the sampler of
\* every sampler write is the handle the texture cache returned for that
\* entry in this call: a resolved handle, or the null view the cache gives
\* for a malformed descriptor.
C7_HandlesFromTextureCache ==
    \A c \in ThisPush :
        /\ \A j \in 1..ni :
              LET w == cmds[c].writes[nb + j]
              IN /\ \E i \in LogAt("FindImageView", j) : w.info.imageView = log[i].ret
                 /\ w.info.sampler = VK_NULL_HANDLE
                 /\ w.info.imageView = VK_NULL_HANDLE =>
                        ~ReadUdImage(ud, info.images[j]).valid
        /\ \A k \in 1..ns :
              LET w == cmds[c].writes[nb + ni + k]
              IN /\ \E i \in LogAt("GetSampler", k) : w.info.sampler = log[i].ret
                 /\ w.info.sampler # VK_NULL_HANDLE
                 /\ w.info.imageView = VK_NULL_HANDLE

C7_Witness ==
    /\ ThisPush # {}
    /\ ni >= 2 /\ ns >= 2
    /\ \E c \in ThisPush :
          /\ cmds[c].writes[nb + 1].info.imageView # cmds[c].writes[nb + 2].info.imageView
          /\ cmds[c].writes[nb + ni + 1].info.sampler # cmds[c].writes[nb + ni + 2].info.sampler

\* C8: the descriptor type at every binding index is the type of the entry's
\* kind, in the layout and in the write of BindResources alike.
C8_DescriptorTypeAgreement ==
    /\ pc # "ctor_bindings" =>
          \A k \in DOMAIN bindings : bindings[k].descriptorType = EntryType(k)
    /\ Constructed =>
          \A w \in DOMAIN set_writes :
              /\ set_writes[w].descriptorType = EntryType(w)
              /\ set_writes[w].descriptorType =
                     desc_layout.pBindings[set_writes[w].dstBinding + 1].descriptorType
    /\ \A c \in DOMAIN cmds : \A w \in DOMAIN cmds[c].writes :
          cmds[c].writes[w].descriptorType =
              desc_layout.pBindings[cmds[c].writes[w].dstBinding + 1].descriptorType

C8_Witness ==
    /\ nb >= 2 /\ ni >= 1 /\ ns >= 1
    /\ info.buffers[1].is_storage /\ ~info.buffers[2].is_storage
    /\ cmds # <<>>

\* C9: every BindResources call maps and commits one fresh region per buffer
\* entry and reads the descriptors again: when the loops are done the log of
\* the call holds one Map and one Commit per buffer, and the bindings pushed
\* carry the offsets returned and the sizes decoded in this very call.
C9_FreshStagingPerDispatch ==
    (pc \in {"images", "samplers", "push"} \/ (pc = "ready" /\ dispatch > 0)) =>
        /\ \A k \in 1..nb :
              /\ Cardinality(LogAt("Map", k)) = 1
              /\ Cardinality(LogAt("Commit", k)) = 1
              /\ \A i \in LogAt("Map", k) :
                    /\ log[i].size = ReadUdBuffer(ud, info.buffers[k]).size
                    /\ LogAt("Commit", k) = {i + 1}
                    /\ log[i + 1].size = log[i].size
        /\ \A c \in ThisPush :
              /\ \A k \in 1..nb : \A i \in LogAt("Map", k) :
                    /\ cmds[c].writes[k].info.offset = log[i].ret
                    /\ cmds[c].writes[k].info.range = log[i].size
              /\ \A j \in 1..ni : \A i \in LogAt("FindImageView", j) :
                    cmds[c].writes[nb + j].info.imageView = log[i].ret

C9_Witness ==
    /\ pc = "ready"
    /\ Len(cmds) = 2
    /\ nb >= 1 /\ ni >= 1
    /\ cmds[1].writes[1].info.range # cmds[2].writes[1].info.range
    /\ cmds[1].writes[1].info.offset # cmds[2].writes[1].info.offset
    /\ cmds[1].writes[nb + 1].info.imageView # cmds[2].writes[nb + 1].info.imageView

\* C10: for every descriptor the constructor accepts, BindResources stays
\* within the capacity of its info containers (4 buffer records, 8 image and
\* sampler records), so the call is never cut short by a full container.
C10_WithinInfoCapacity ==
    Constructed => fault # "capacity"
====
